---- MODULE Spec2Model ----
(***************************************************************************)
(* A model of ugali/utils/batch.py: the backend registry, the factory, the *)
(* option merge of the Local / LSF / Slurm backends, the job count and the *)
(* throttled submission.                                                   *)
(*                                                                         *)
(* Representation.                                                         *)
(*   - a Python str is a TLA+ string; a text whose characters matter (the  *)
(*     queue listing) is a sequence of one-character strings;              *)
(*   - an OrderedDict is a sequence of <<key, value>> pairs with distinct  *)
(*     keys, in insertion order;                                           *)
(*   - None is the string None where a str is expected and the empty tuple *)
(*     NoJobs where an int is expected (max_jobs); an int n is <<n>>;      *)
(*   - option values are the text "%s" renders (the int 0 is "0");         *)
(*   - the keyword max_jobs of **kwargs is carried beside the other        *)
(*     keywords, the way Batch.__init__ pops it off them.                  *)
(***************************************************************************)
EXTENDS Integers, Sequences, FiniteSets, TLC

VARIABLES
    insts,       \* slot -> the backend object bound to it, or NoInst
    built,       \* slot -> default_opts of that object right after __init__
    _defaults,   \* class -> its _defaults table (class attribute)
    _mapping,    \* class -> its _mapping table (class attribute)
    RUNLIMITS,   \* module global
    MPIOPTS,     \* module global
    op,          \* the last call: its name and arguments
    ret,         \* what the last call returned: Nothing, Str(s) or Obj(o)
    exc,         \* the exception the last call raised (None when it returned)
    pc,          \* where the running submit()/throttle() call stands
    frame,       \* the running call: its name, object and arguments
    cmd,         \* submit()'s local cmd
    options,     \* parse_options()'s local odict options, as the last
                 \* command line was joined from it (<<>> once another call
                 \* has started)
    max_jobs,    \* throttle()'s local max_jobs (the ceiling in effect)
    njobs,       \* throttle()'s local njobs (the last poll), NoJobs before
    waited,      \* whether throttle() has logged "waiting..." in this call
    called,      \* the command lines handed to call() by the running submit
    queue_out,   \* what the queue-listing command prints if run now
    jobs         \* njobs()'s local jobs (the listing it read last)

vars == <<insts, built, _defaults, _mapping, RUNLIMITS, MPIOPTS, op, ret, exc,
          pc, frame, cmd, options, max_jobs, njobs, waited, called,
          queue_out, jobs>>

-----------------------------------------------------------------------------
(* Bounds of the model.                                                    *)

\* ceilings 0..MaxJobs are tried for max_jobs
MaxJobs == 2
\* the listing shows a header and 0..MaxQueue job lines
MaxQueue == 3
\* listings of up to MaxLen characters are counted by njobs()
MaxLen == 5

-----------------------------------------------------------------------------
(* Python values.                                                          *)

None == "None"
NoJobs == <<>>
NoInst == [cls |-> "NoInst"]

\* return values: nothing (None, or the call raised), a str, a backend
Nothing == <<>>
Str(s) == <<"str", s>>
Obj(o) == <<"obj", o>>

Range(s) == {s[i] : i \in DOMAIN s}

\* truth value of a str-or-None (`if jobname:`)
Truthy(s) == s # None /\ s # ""

-----------------------------------------------------------------------------
(* OrderedDict.                                                            *)

Keys(d) == {d[i][1] : i \in DOMAIN d}

\* d.get(k, dflt)
Get(d, k, dflt) ==
    IF k \in Keys(d)
    THEN d[CHOOSE i \in DOMAIN d : d[i][1] = k][2]
    ELSE dflt

\* d[k] = v: an existing key keeps its place, a new key goes last
SetItem(d, k, v) ==
    IF k \in Keys(d)
    THEN [i \in DOMAIN d |-> IF d[i][1] = k THEN <<k, v>> ELSE d[i]]
    ELSE Append(d, <<k, v>>)

\* d.pop(k, None), the mapping that is left
Pop(d, k) == SelectSeq(d, LAMBDA kv : kv[1] # k)

\* d.setdefault(k, v), the mapping that is left
SetDefault(d, k, v) == IF k \in Keys(d) THEN d ELSE Append(d, <<k, v>>)

RECURSIVE Update(_, _)
\* d.update(e)
Update(d, e) ==
    IF e = <<>> THEN d
    ELSE Update(SetItem(d, e[1][1], e[1][2]), Tail(e))

-----------------------------------------------------------------------------
(* The registry, batch.py lines 17-60.                                     *)

Families == <<"local", "lsf", "slurm", "condor">>

CLUSTERS ==
    [local  |-> <<"local">>,
     lsf    |-> <<"lsf", "slac", "kipac">>,
     slurm  |-> <<"slurm", "midway", "kicp">>,
     condor |-> <<"condor", "fnal">>]

QUEUES ==
    [local  |-> <<>>,
     lsf    |-> <<"express", "short", "medium", "long", "xlong", "xxl",
                  "kipac-ibq", "bulletmpi">>,
     slurm  |-> <<>>,
     condor |-> <<"local", "vanilla", "universe", "grid">>]

RUNLIMITS_table ==
    (None :> "4:00") @@ ("express" :> "0:04") @@ ("short" :> "0:30") @@
    ("medium" :> "1:00") @@ ("long" :> "4:00") @@ ("xlong" :> "72:00") @@
    ("xxl" :> "168:00") @@ ("kipac-ibq" :> "36:00") @@ ("bulletmpi" :> "36:00")

MPIOPTS_table ==
    (None :> " -R \"span[ptile=4]\"") @@ ("local" :> "") @@ ("short" :> "") @@
    ("medium" :> "") @@ ("kipac-ibq" :> " -R \"span[ptile=8]\"") @@
    ("bulletmpi" :> " -R \"span[ptile=16]\"")

\* the _defaults class attributes: Local and Condor inherit Batch's
defaults_table ==
    [Batch |-> <<>>,
     LSF   |-> << <<"R", "\"scratch > 1 && rhel60\"">>, <<"C", "0">> >>,
     Slurm |-> << <<"account", "kicp">>, <<"partition", "kicp-ht">>,
                  <<"mem", "10000">> >>]

\* the _mapping class attributes: Local, Slurm and Condor inherit Batch's
mapping_table ==
    [Batch |-> <<>>,
     LSF   |-> << <<"jobname", "J">>, <<"logfile", "oo">> >>,
     Slurm |-> <<>>]

\* the class whose _defaults attribute an object of class cls reads
DefaultsOwner(cls) == IF cls \in {"LSF", "Slurm"} THEN cls ELSE "Batch"

\* the class whose _mapping attribute an object of class cls reads
MappingOwner(cls) == IF cls = "LSF" THEN cls ELSE "Batch"

-----------------------------------------------------------------------------
(* str.lower() on the names the model passes to factory(): a name with an  *)
(* upper-case letter maps to its lower-case spelling, any other name has   *)
(* no upper-case letter and maps to itself.                                *)

LowerCased ==
    ("LOCAL" :> "local") @@ ("LSF" :> "lsf") @@ ("Slac" :> "slac") @@
    ("Express" :> "express") @@ ("KIPAC-IBQ" :> "kipac-ibq") @@
    ("Midway" :> "midway") @@ ("FNAL" :> "fnal") @@ ("Grid" :> "grid") @@
    ("Bogus" :> "bogus")

lower(s) == IF s \in DOMAIN LowerCased THEN LowerCased[s] ELSE s

-----------------------------------------------------------------------------
(* Construction, batch.py lines 94-100, 151-154, 176-180, 218-223, 232-237 *)

username == "user"

\* Batch.__init__: max_jobs is popped off kwargs, the class defaults are
\* deep-copied and updated with the remaining keywords
Batch_init(cls, mj, kwargs) ==
    [cls          |-> cls,
     username     |-> username,
     max_jobs     |-> mj,
     default_opts |-> Update(_defaults[DefaultsOwner(cls)], kwargs),
     submit_cmd   |-> "submit %(opts)s %(command)s",
     jobs_cmd     |-> "jobs"]

\* the class tables after Batch.__init__: copy.deepcopy keeps update()
\* away from the class attribute
DefaultsAfterInit(cls, kwargs) == _defaults

Local_init(mj, kwargs) ==
    [Batch_init("Local", mj, kwargs) EXCEPT
        !.jobs_cmd = "echo 0", !.submit_cmd = "%(command)s %(opts)s"]

LSF_init(mj, kwargs) ==
    [Batch_init("LSF", mj, kwargs) EXCEPT
        !.jobs_cmd = "bjobs -u " \o username,
        !.submit_cmd = "bsub %(opts)s %(command)s"]

Slurm_init(mj, kwargs) ==
    [Batch_init("Slurm", mj, kwargs) EXCEPT
        !.jobs_cmd = "squeue -u " \o username,
        !.submit_cmd = "sbatch %(opts)s %(command)s"]

Condor_init(mj, kwargs) ==
    [Batch_init("Condor", mj, kwargs) EXCEPT
        !.jobs_cmd = "condor_q -u " \o username,
        !.submit_cmd = "csub %(opts)s %(command)s"]

-----------------------------------------------------------------------------
(* factory, batch.py lines 62-83.                                          *)

\* list(chain(*list(QUEUES.values())))
AllQueues == QUEUES.local \o QUEUES.lsf \o QUEUES.slurm \o QUEUES.condor

\* lines 64-66
factory_name(queue) == lower(IF queue = None THEN "local" ELSE queue)

\* a slip: the queue name overwrites the q the caller passed
factory_kwargs_overwrite(name, kwargs) ==
    IF name \in Range(AllQueues) THEN SetItem(kwargs, "q", name) ELSE kwargs

\* lines 67-68
factory_kwargs(name, kwargs) ==
    IF name \in Range(AllQueues) THEN SetDefault(kwargs, "q", name) ELSE kwargs

\* a slip: the condor branch tested first
factory_class_condor_first(name) ==
    IF name \in Range(CLUSTERS.condor \o QUEUES.condor) THEN "Condor"
    ELSE IF name \in Range(CLUSTERS.local \o QUEUES.local) THEN "Local"
    ELSE IF name \in Range(CLUSTERS.lsf \o QUEUES.lsf) THEN "LSF"
    ELSE IF name \in Range(CLUSTERS.slurm \o QUEUES.slurm) THEN "Slurm"
    ELSE ""

\* lines 70-81: the class constructed for a name, "" when none is
factory_class(name) ==
    IF name \in Range(CLUSTERS.local \o QUEUES.local) THEN "Local"
    ELSE IF name \in Range(CLUSTERS.lsf \o QUEUES.lsf) THEN "LSF"
    ELSE IF name \in Range(CLUSTERS.slurm \o QUEUES.slurm) THEN "Slurm"
    ELSE IF name \in Range(CLUSTERS.condor \o QUEUES.condor) THEN "Condor"
    ELSE ""

\* what factory(queue, max_jobs=mj, **kwargs) returns or raises
factory(queue, mj, kwargs) ==
    LET name == factory_name(queue)
        kw   == factory_kwargs(name, kwargs)
        cls  == factory_class(name)
    IN  CASE cls = "Local"  -> [batch |-> Local_init(mj, kw), exc |-> None]
          [] cls = "LSF"    -> [batch |-> LSF_init(mj, kw), exc |-> None]
          [] cls = "Slurm"  -> [batch |-> Slurm_init(mj, kw), exc |-> None]
          [] cls = "Condor" ->
                [batch |-> Condor_init(mj, kw),
                 exc   |-> "Condor cluster not implemented"]
          [] OTHER          ->
                [batch |-> NoInst, exc |-> "Unexpected queue name: " \o name]

-----------------------------------------------------------------------------
(* Command lines, batch.py lines 131-142, 156-158, 182-209, 225-228.       *)

RECURSIVE remap(_, _)
\* the loop of remap_options over the keys of _mapping
remap(opts, mapping) ==
    IF mapping = <<>> THEN opts
    ELSE LET k == mapping[1][1]
             v == Get(opts, k, None)
             popped == Pop(opts, k)
         IN  remap(IF v # None THEN SetItem(popped, mapping[1][2], v)
                   ELSE popped,
                   Tail(mapping))

remap_options(self, opts) == remap(opts, _mapping[MappingOwner(self.cls)])

\* a slip: the queue is not looked up
runlimit_default(queue) == RUNLIMITS[None]

\* LSF.runlimit
runlimit(queue) ==
    IF queue \in DOMAIN RUNLIMITS THEN RUNLIMITS[queue] ELSE RUNLIMITS[None]

\* a slip: the queue is not looked up
mpiopts_default(queue) == MPIOPTS[None]

\* LSF.mpiopts
mpiopts(queue) ==
    IF queue \in DOMAIN MPIOPTS THEN MPIOPTS[queue] ELSE MPIOPTS[None]

RECURSIVE join(_, _)
\* ''.join(dash + '%s %s ' % (k, v) for k, v in options.items())
join(dash, items) ==
    IF items = <<>> THEN ""
    ELSE dash \o items[1][1] \o " " \o items[1][2] \o " "
         \o join(dash, Tail(items))

\* a slip: the layers merged the other way round
LSF_options_defaults_last(self, opts) ==
    LET merged == Update(opts, self.default_opts)
        withR  == IF "n" \in Keys(merged)
                  THEN SetItem(merged, "R",
                               Get(merged, "R", None)
                               \o mpiopts(Get(merged, "q", None)))
                  ELSE merged
    IN  SetDefault(withR, "W", runlimit(Get(withR, "q", None)))

\* LSF.parse_options up to the join: the local odict options
LSF_options(self, opts) ==
    LET merged == Update(self.default_opts, opts)
        withR  == IF "n" \in Keys(merged)
                  THEN SetItem(merged, "R",
                               Get(merged, "R", None)
                               \o mpiopts(Get(merged, "q", None)))
                  ELSE merged
    IN  SetDefault(withR, "W", runlimit(Get(withR, "q", None)))

\* Slurm.parse_options up to the join
Slurm_options(self, opts) == Update(self.default_opts, opts)

\* the local odict options of self.parse_options(**opts); Local has none
parse_local(self, opts) ==
    CASE self.cls = "Local" -> <<>>
      [] self.cls = "LSF"   -> LSF_options(self, opts)
      [] self.cls = "Slurm" -> Slurm_options(self, opts)

\* self.parse_options(**opts)
parse_options(self, opts) ==
    CASE self.cls = "Local" ->
            IF Truthy(Get(opts, "logfile", None))
            THEN " 2>&1 | tee " \o Get(opts, "logfile", None)
            ELSE ""
      [] self.cls = "LSF"   -> join("-", parse_local(self, opts))
      [] self.cls = "Slurm" -> join("--", parse_local(self, opts))

\* a slip: options = self.default_opts, an alias, and the LSF merge works
\* on the object's own mapping
DefaultOptsAfterParse_aliased(self, opts) ==
    IF self.cls = "LSF" THEN LSF_options(self, opts) ELSE self.default_opts

\* self.default_opts after parse_options: odict(self.default_opts) is a
\* copy, so update / += / setdefault work on the copy
DefaultOptsAfterParse(self, opts) == self.default_opts

\* self.submit_cmd % dict(opts=o, command=command)
Percent(template, o, command) ==
    CASE template = "%(command)s %(opts)s"        -> command \o " " \o o
      [] template = "bsub %(opts)s %(command)s"   ->
            "bsub " \o o \o " " \o command
      [] template = "sbatch %(opts)s %(command)s" ->
            "sbatch " \o o \o " " \o command
      [] template = "csub %(opts)s %(command)s"   ->
            "csub " \o o \o " " \o command
      [] template = "submit %(opts)s %(command)s" ->
            "submit " \o o \o " " \o command

\* lines 138-140: the per-call options handed to parse_options
batch_opts(self, jobname, logfile, opts) ==
    LET o1 == IF Truthy(jobname) THEN SetItem(opts, "jobname", jobname)
              ELSE opts
        o2 == IF Truthy(logfile) THEN SetItem(o1, "logfile", logfile) ELSE o1
    IN  remap_options(self, o2)

\* Batch.batch
batch(self, command, jobname, logfile, opts) ==
    Percent(self.submit_cmd,
            parse_options(self, batch_opts(self, jobname, logfile, opts)),
            command)

-----------------------------------------------------------------------------
(* The job count, batch.py lines 102-110 and 160-161.                      *)

Whitespace == {" ", "\n"}

RECURSIVE lstrip(_)
lstrip(t) ==
    IF t # <<>> /\ t[1] \in Whitespace THEN lstrip(Tail(t)) ELSE t

RECURSIVE rstrip(_)
rstrip(t) ==
    IF t # <<>> /\ t[Len(t)] \in Whitespace
    THEN rstrip(SubSeq(t, 1, Len(t) - 1))
    ELSE t

\* a slip: the listing is not stripped
strip_nothing(t) == t

\* str.strip()
strip(t) == rstrip(lstrip(t))

RECURSIVE split(_, _)
\* str.split(sep) for a one-character sep: the list of pieces
split(t, sep) ==
    IF \E i \in DOMAIN t : t[i] = sep
    THEN LET i == CHOOSE j \in DOMAIN t :
                      t[j] = sep /\ \A k \in 1..(j - 1) : t[k] # sep
         IN  <<SubSeq(t, 1, i - 1)>> \o split(SubSeq(t, i + 1, Len(t)), sep)
    ELSE <<t>>

\* Batch.njobs on the listing jobs
Batch_njobs(t) == IF t # <<>> THEN Len(split(strip(t), "\n")) - 1 ELSE 0

\* Local.njobs
Local_njobs == 0

\* a slip: Local does not override njobs
njobs_of_no_override(self, t) == Batch_njobs(t)

\* self.njobs() when the queue-listing command prints t
njobs_of(self, t) == IF self.cls = "Local" THEN Local_njobs ELSE Batch_njobs(t)

\* njobs()'s local jobs after the call: Local.njobs runs no command
jobs_of(self, t) == IF self.cls = "Local" THEN jobs ELSE t

-----------------------------------------------------------------------------
(* throttle and submit, batch.py lines 112-121 and 144-148.                *)

\* a slip: the object's ceiling wins over the argument
ceiling_instance_first(self, mj) ==
    IF self.max_jobs # NoJobs THEN self.max_jobs ELSE mj

\* lines 113-114: the ceiling in effect, NoJobs when there is none
ceiling(self, mj) == IF mj = NoJobs THEN self.max_jobs ELSE mj

\* a slip: <= for <
below_or_equal(n, mj) == n <= mj[1]

\* line 117
below(n, mj) == n < mj[1]

\* where a call stands once throttle() has returned
AfterThrottle(f) == IF f.name = "submit" THEN "call" ELSE "idle"

Idle == [name |-> "idle"]

-----------------------------------------------------------------------------
(* Operations.                                                             *)

Slots == {"a", "b"}

ClassVars == <<_defaults, _mapping, RUNLIMITS, MPIOPTS>>
CallVars == <<pc, frame, cmd, max_jobs, njobs, waited, called>>


\* slot = factory(queue, max_jobs=mj, **kwargs)
Factory(slot, queue, mj, kwargs) ==
    LET r   == factory(queue, mj, kwargs)
        cls == factory_class(factory_name(queue))
    IN  /\ pc = "idle"
        /\ insts' = IF r.exc = None THEN [insts EXCEPT ![slot] = r.batch]
                    ELSE insts
        /\ built' = IF r.exc = None
                    THEN [built EXCEPT ![slot] = r.batch.default_opts]
                    ELSE built
        /\ _defaults' = IF cls # ""
                        THEN DefaultsAfterInit(cls, factory_kwargs(
                                 factory_name(queue), kwargs))
                        ELSE _defaults
        /\ op' = [name |-> "factory", slot |-> slot, queue |-> queue,
                  max_jobs |-> mj, kwargs |-> kwargs]
        /\ ret' = IF r.exc = None THEN Obj(r.batch) ELSE Nothing
        /\ exc' = r.exc
        /\ options' = <<>>
        /\ UNCHANGED <<_mapping, RUNLIMITS, MPIOPTS, queue_out, jobs>>
        /\ UNCHANGED CallVars

\* insts[slot].batch(command, jobname, logfile, **opts)
BatchCall(slot, command, jobname, logfile, opts) ==
    LET self == insts[slot]
    IN  /\ pc = "idle"
        /\ self # NoInst
        /\ ret' = Str(batch(self, command, jobname, logfile, opts))
        /\ options' = parse_local(self,
                                  batch_opts(self, jobname, logfile, opts))
        /\ insts' = [insts EXCEPT ![slot].default_opts =
                        DefaultOptsAfterParse(self,
                            batch_opts(self, jobname, logfile, opts))]
        /\ op' = [name |-> "batch", slot |-> slot, command |-> command,
                  jobname |-> jobname, logfile |-> logfile, opts |-> opts]
        /\ exc' = None
        /\ UNCHANGED <<built, queue_out, jobs>>
        /\ UNCHANGED ClassVars
        /\ UNCHANGED CallVars

\* insts[slot].submit(command, jobname, logfile, **opts), lines 145-146 and
\* 113-114: cmd is built and throttle() is entered
Submit(slot, command, jobname, logfile, opts) ==
    LET self == insts[slot]
        f    == [name |-> "submit", slot |-> slot]
        m    == ceiling(self, NoJobs)
    IN  /\ pc = "idle"
        /\ self # NoInst
        /\ cmd' = batch(self, command, jobname, logfile, opts)
        /\ options' = parse_local(self,
                                  batch_opts(self, jobname, logfile, opts))
        /\ insts' = [insts EXCEPT ![slot].default_opts =
                        DefaultOptsAfterParse(self,
                            batch_opts(self, jobname, logfile, opts))]
        /\ frame' = f
        /\ max_jobs' = m
        /\ pc' = IF m = NoJobs THEN AfterThrottle(f) ELSE "poll"
        /\ njobs' = NoJobs
        /\ waited' = FALSE
        /\ called' = <<>>
        /\ op' = [name |-> "submit", slot |-> slot, command |-> command,
                  jobname |-> jobname, logfile |-> logfile, opts |-> opts]
        /\ ret' = Nothing
        /\ exc' = None
        /\ UNCHANGED <<built, queue_out, jobs>>
        /\ UNCHANGED ClassVars

\* insts[slot].throttle(max_jobs=mj), lines 113-114
Throttle(slot, mj) ==
    LET self == insts[slot]
        f    == [name |-> "throttle", slot |-> slot]
        m    == ceiling(self, mj)
    IN  /\ pc = "idle"
        /\ self # NoInst
        /\ frame' = IF m = NoJobs THEN Idle ELSE f
        /\ max_jobs' = m
        /\ pc' = IF m = NoJobs THEN AfterThrottle(f) ELSE "poll"
        /\ njobs' = NoJobs
        /\ waited' = FALSE
        /\ called' = <<>>
        /\ cmd' = None
        /\ op' = [name |-> "throttle", slot |-> slot, max_jobs |-> mj]
        /\ ret' = Nothing
        /\ exc' = None
        /\ options' = <<>>
        /\ UNCHANGED <<insts, built, queue_out, jobs>>
        /\ UNCHANGED ClassVars

\* lines 116-118: one poll of the queue
Poll ==
    LET self == insts[frame.slot]
        n    == njobs_of(self, queue_out)
    IN  /\ pc = "poll"
        /\ jobs' = jobs_of(self, queue_out)
        /\ njobs' = <<n>>
        /\ pc' = IF below(n, max_jobs) THEN AfterThrottle(frame) ELSE "sleep"
        /\ frame' = IF below(n, max_jobs) /\ frame.name = "throttle"
                    THEN Idle ELSE frame
        /\ UNCHANGED <<insts, built, op, ret, exc, cmd, options, max_jobs,
                       waited, called, queue_out>>
        /\ UNCHANGED ClassVars

\* lines 120-121: the waiting message and the sleep
Sleep ==
    /\ pc = "sleep"
    /\ waited' = TRUE
    /\ pc' = "poll"
    /\ UNCHANGED <<insts, built, op, ret, exc, frame, cmd, options, max_jobs,
                   njobs, called, queue_out, jobs>>
    /\ UNCHANGED ClassVars

\* line 147: the process runner runs cmd
Call ==
    /\ pc = "call"
    /\ called' = Append(called, cmd)
    /\ pc' = "return"
    /\ UNCHANGED <<insts, built, op, ret, exc, frame, cmd, options, max_jobs,
                   njobs, waited, queue_out, jobs>>
    /\ UNCHANGED ClassVars

\* line 148
Return ==
    /\ pc = "return"
    /\ ret' = Str(cmd)
    /\ pc' = "idle"
    /\ frame' = Idle
    /\ UNCHANGED <<insts, built, op, exc, cmd, options, max_jobs, njobs,
                   waited, called, queue_out, jobs>>
    /\ UNCHANGED ClassVars

\* insts[slot].njobs() when the queue-listing command prints out
Njobs(slot, out) ==
    LET self == insts[slot]
    IN  /\ pc = "idle"
        /\ self # NoInst
        /\ jobs' = jobs_of(self, out)
        /\ njobs' = <<njobs_of(self, out)>>
        /\ op' = [name |-> "njobs", slot |-> slot, out |-> out]
        /\ ret' = Nothing
        /\ exc' = None
        /\ options' = <<>>
        /\ UNCHANGED <<insts, built, pc, frame, cmd, max_jobs, waited,
                       called, queue_out>>
        /\ UNCHANGED ClassVars

\* the user's jobs start and finish: the listing changes
Queue(out) ==
    /\ queue_out # out
    /\ queue_out' = out
    /\ UNCHANGED <<insts, built, op, ret, exc, options, jobs>>
    /\ UNCHANGED ClassVars
    /\ UNCHANGED CallVars

-----------------------------------------------------------------------------
(* The state after import: no backend constructed, no call running.        *)

Init ==
    /\ insts = [s \in Slots |-> NoInst]
    /\ built = [s \in Slots |-> <<>>]
    /\ _defaults = defaults_table
    /\ _mapping = mapping_table
    /\ RUNLIMITS = RUNLIMITS_table
    /\ MPIOPTS = MPIOPTS_table
    /\ op = [name |-> "import"]
    /\ ret = Nothing
    /\ exc = None
    /\ pc = "idle"
    /\ frame = Idle
    /\ cmd = None
    /\ options = <<>>
    /\ max_jobs = NoJobs
    /\ njobs = NoJobs
    /\ waited = FALSE
    /\ called = <<>>
    /\ queue_out = <<>>
    /\ jobs = <<>>

-----------------------------------------------------------------------------
(* Spec: one backend, built by factory() and asked for command lines.      *)

FactoryQueues ==
    {None, "local", "LOCAL", "lsf", "LSF", "Slac", "express", "Express",
     "kipac-ibq", "KIPAC-IBQ", "bulletmpi", "slurm", "Midway", "condor",
     "FNAL", "vanilla", "Grid", "bogus", "Bogus"}

FactoryKwargs ==
    { <<>>,
      << <<"q", "long">> >>,
      << <<"q", "zzz">> >>,
      << <<"n", "4">>, <<"C", "1">> >>,
      << <<"J", "ij">>, <<"W", "2:00">>, <<"R", "iR">> >>,
      << <<"account", "me">>, <<"q", "bulletmpi">> >> }

Commands == {"echo hi"}
Jobnames == {None, "", "j1"}
Logfiles == {None, "out.log"}

CallOpts ==
    { <<>>,
      << <<"q", "express">> >>,
      << <<"q", "bulletmpi">>, <<"n", "2">> >>,
      << <<"W", "0:10">> >>,
      << <<"n", "8">> >>,
      << <<"R", "cR">>, <<"J", "cj">> >>,
      << <<"C", "4">>, <<"q", "zzz">>, <<"n", "1">> >>,
      << <<"account", "x">>, <<"mem", "1">> >> }

Ceilings == {NoJobs} \cup {<<n>> : n \in 0..MaxJobs}

Next ==
    \/ \E q \in FactoryQueues, kw \in FactoryKwargs :
          Factory("a", q, NoJobs, kw)
    \/ \E c \in Commands, j \in Jobnames, l \in Logfiles, o \in CallOpts :
          BatchCall("a", c, j, l, o)

Spec == Init /\ [][Next]_vars

-----------------------------------------------------------------------------
(* SpecSubmit: one backend with a ceiling, submit() and throttle() against *)
(* a queue that changes under them.                                        *)

RECURSIVE Listing(_)
\* a listing of a header line and k job lines
Listing(k) ==
    IF k = 0 THEN <<"x", "\n">> ELSE Listing(k - 1) \o <<"x", "\n">>

QueueOutputs == {<<>>} \cup {Listing(k) : k \in 0..MaxQueue}

SubmitQueues == {"local", "lsf", "slurm"}

NextSubmit ==
    \/ \E q \in SubmitQueues, mj \in Ceilings : Factory("a", q, mj, <<>>)
    \/ \E j \in {None, "j1"} : Submit("a", "echo hi", j, None, <<>>)
    \/ \E mj \in Ceilings : Throttle("a", mj)
    \/ Poll
    \/ Sleep
    \/ Call
    \/ Return
    \/ \E out \in QueueOutputs : Queue(out)

SpecSubmit == Init /\ [][NextSubmit]_vars

\* a running call goes on: the interpreter does not stop between the
\* statements of throttle() and submit(), sleep() and the commands end
SpecSubmitFair ==
    /\ SpecSubmit
    /\ WF_vars(Poll) /\ WF_vars(Sleep) /\ WF_vars(Call) /\ WF_vars(Return)

-----------------------------------------------------------------------------
(* SpecFrame: two backends side by side, built and used in any order.      *)

FrameQueues == {"local", "lsf", "bulletmpi", "slurm"}
FrameKwargs == { <<>>, << <<"n", "4">> >> }
FrameOpts ==
    { <<>>, << <<"n", "2">>, <<"q", "express">> >>, << <<"R", "cR">> >> }

NextFrame ==
    \/ \E s \in Slots, q \in FrameQueues, kw \in FrameKwargs :
          Factory(s, q, NoJobs, kw)
    \/ \E s \in Slots, o \in FrameOpts :
          BatchCall(s, "echo hi", "j1", None, o)
    \/ \E s \in Slots, o \in FrameOpts :
          Submit(s, "echo hi", None, "out.log", o)
    \/ Call
    \/ Return

SpecFrame == Init /\ [][NextFrame]_vars

-----------------------------------------------------------------------------
(* SpecNjobs: njobs() on every listing of up to MaxLen characters.         *)

Chars == {"x", " ", "\n"}

Texts == UNION {[1..n -> Chars] : n \in 0..MaxLen}

NextNjobs ==
    \/ \E q \in {"lsf", "slurm"} : Factory("a", q, NoJobs, <<>>)
    \/ \E out \in Texts : Njobs("a", out)

SpecNjobs == Init /\ [][NextNjobs]_vars

-----------------------------------------------------------------------------
(* Properties of factory().                                                *)

\* the members of a family: its cluster aliases and its queue names
Members(f) == Range(CLUSTERS[f]) \cup Range(QUEUES[f])

\* the earliest family, in the order local, lsf, slurm, condor, that has n
\* as a member; "none" when no family has
EarliestFamily(n) ==
    IF \E i \in DOMAIN Families : n \in Members(Families[i])
    THEN Families[CHOOSE i \in DOMAIN Families :
                      /\ n \in Members(Families[i])
                      /\ \A j \in 1..(i - 1) : n \notin Members(Families[j])]
    ELSE "none"

ClassOf(f) ==
    CASE f = "local" -> "Local" [] f = "lsf" -> "LSF" [] f = "slurm" -> "Slurm"

\* what the last call, a call of factory, returned and raised
Outcome == <<ret, exc>>

OutcomeOf(queue) ==
    LET r == factory(queue, op.max_jobs, op.kwargs)
    IN  <<IF r.exc = None THEN Obj(r.batch) ELSE Nothing, r.exc>>

\* C4: factory(name) resolves the name, whatever its case, to the earliest
\* of the families local, lsf, slurm, condor that has it as a cluster alias
\* or queue name; None resolves as "local" does; a name of the condor family
\* raises "not implemented" and no Condor object is returned; a name of no
\* family raises "unexpected queue name" and nothing is returned.
C4_FactoryResolution ==
    op.name = "factory" =>
        /\ ret # Nothing => ret[2].cls # "Condor"
        /\ op.queue = None => Outcome = OutcomeOf("local")
        /\ op.queue \in DOMAIN LowerCased =>
               Outcome = OutcomeOf(LowerCased[op.queue])
        /\ (op.queue # None /\ op.queue \notin DOMAIN LowerCased) =>
               LET f == EarliestFamily(op.queue)
               IN  CASE f = "none" ->
                           /\ exc = "Unexpected queue name: " \o op.queue
                           /\ ret = Nothing
                     [] f = "condor" ->
                           /\ exc = "Condor cluster not implemented"
                           /\ ret = Nothing
                     [] OTHER ->
                           /\ exc = None
                           /\ ret # Nothing
                           /\ ret[2].cls = ClassOf(f)

\* "LOCAL", an upper-case spelling of a name that is a local alias and a
\* condor queue, has given a Local backend
C4_Witness ==
    /\ op.name = "factory"
    /\ op.queue = "LOCAL"
    /\ "local" \in Members("local") \cap Members("condor")
    /\ exc = None
    /\ ret[2].cls = "Local"

\* the name as factory() compares it
Folded(queue) ==
    IF queue = None THEN "local"
    ELSE IF queue \in DOMAIN LowerCased THEN LowerCased[queue] ELSE queue

\* C8 for the backend factory() returns
C8_ReturnedQueueOption ==
    (op.name = "factory" /\ exc = None) =>
        IF "q" \in Keys(op.kwargs)
        THEN Get(ret[2].default_opts, "q", None) = Get(op.kwargs, "q", None)
        ELSE IF \E f \in Range(Families) : Folded(op.queue) \in Range(QUEUES[f])
        THEN Get(ret[2].default_opts, "q", None) = Folded(op.queue)
        ELSE "q" \notin Keys(ret[2].default_opts)

\* C8 for the Condor object factory() constructs before it raises
C8_CondorQueueOption ==
    (op.name = "factory" /\ exc = "Condor cluster not implemented") =>
        LET made == factory(op.queue, op.max_jobs, op.kwargs).batch
        IN  /\ made.cls = "Condor"
            /\ IF "q" \in Keys(op.kwargs)
               THEN Get(made.default_opts, "q", None)
                        = Get(op.kwargs, "q", None)
               ELSE IF Folded(op.queue) \in Range(QUEUES.condor)
               THEN Get(made.default_opts, "q", None) = Folded(op.queue)
               ELSE "q" \notin Keys(made.default_opts)

\* C8: a backend constructed for a name that is, whatever its case, one of
\* the queue names of any family has the option q set to the lower-case
\* name, unless the caller passed q, which is kept; for a name that is no
\* queue name (a cluster alias) q is present only if the caller passed it.
C8_FactoryQueueOption == C8_ReturnedQueueOption /\ C8_CondorQueueOption

\* factory("KIPAC-IBQ") has returned an LSF backend with q = "kipac-ibq"
C8_Witness ==
    /\ op.name = "factory"
    /\ op.queue = "KIPAC-IBQ"
    /\ op.kwargs = <<>>
    /\ exc = None
    /\ ret[2].cls = "LSF"
    /\ Get(ret[2].default_opts, "q", None) = "kipac-ibq"

-----------------------------------------------------------------------------
(* Properties of the option merge. They read the last call's arguments     *)
(* (op), the object it was made on and the odict the command line was      *)
(* joined from (options).                                                  *)

\* the object of the last call
Self == insts[op.slot]

Pos(d, k) == CHOOSE i \in DOMAIN d : d[i][1] = k

\* the class default of key k, None when there is none
ClassDefault(cls, k) == Get(defaults_table[DefaultsOwner(cls)], k, None)

\* the per-call value of backend key k: jobname and logfile count under the
\* key they are remapped to
PerCall(k) ==
    LET generic ==
            IF Self.cls = "LSF" /\ k = "J" THEN op.jobname
            ELSE IF Self.cls = "LSF" /\ k = "oo" THEN op.logfile
            ELSE IF Self.cls # "LSF" /\ k = "jobname" THEN op.jobname
            ELSE IF Self.cls # "LSF" /\ k = "logfile" THEN op.logfile
            ELSE None
    IN  IF Truthy(generic) THEN generic ELSE Get(op.opts, k, None)

\* the value the three layers give key k: per-call, else instance default
\* (itself the construction keyword, else the class default)
Merged(k) ==
    IF PerCall(k) # None THEN PerCall(k) ELSE Get(Self.default_opts, k, None)

OptionKeys ==
    Keys(options) \cup Keys(op.opts) \cup Keys(Self.default_opts)
    \cup {"J", "oo", "jobname", "logfile"}

MpiSuffixes == {MPIOPTS_table[q] : q \in DOMAIN MPIOPTS_table}

\* key k1 comes before key k2 in d
Before(d, k1, k2) == Pos(d, k1) < Pos(d, k2)

\* C5: in the options of an LSF or Slurm command line every key of any
\* layer appears with the per-call value if there is one (jobname / logfile
\* under J / oo for LSF), else the instance default; the instance defaults
\* are the construction keywords over the class defaults; the keys come in
\* the order class defaults, new construction keywords, new per-call keys.
\* (R with n present carries an MPI suffix after the merged value and a W
\* no layer gives is defaulted: C7 and C6.)
C5_LayeredMerge ==
    /\ (op.name = "batch" /\ Self.cls \in {"LSF", "Slurm"}) =>
          /\ \A k \in OptionKeys :
                IF Merged(k) # None
                THEN /\ k \in Keys(options)
                     /\ IF Self.cls = "LSF" /\ k = "R" /\ Merged("n") # None
                        THEN \E sfx \in MpiSuffixes :
                                Get(options, k, None) = Merged(k) \o sfx
                        ELSE Get(options, k, None) = Merged(k)
                ELSE k \in Keys(options) => (Self.cls = "LSF" /\ k = "W")
          /\ \A k1, k2 \in Keys(Self.default_opts) :
                Before(Self.default_opts, k1, k2) => Before(options, k1, k2)
          /\ \A k1 \in Keys(Self.default_opts) :
                \A k2 \in Keys(options) \ Keys(Self.default_opts) :
                    Before(options, k1, k2)
          /\ \A k1, k2 \in Keys(op.opts) \ Keys(Self.default_opts) :
                Before(op.opts, k1, k2) => Before(options, k1, k2)
    /\ (op.name = "factory" /\ exc = None /\ ret[2].cls \in {"LSF", "Slurm"}) =>
          LET class == defaults_table[DefaultsOwner(ret[2].cls)]
              d     == ret[2].default_opts
          IN  /\ Keys(class) \cup Keys(op.kwargs) \subseteq Keys(d)
              /\ \A k \in Keys(d) :
                    IF k \in Keys(op.kwargs)
                    THEN Get(d, k, None) = Get(op.kwargs, k, None)
                    ELSE IF k \in Keys(class)
                    THEN Get(d, k, None) = ClassDefault(ret[2].cls, k)
                    ELSE k = "q"
              /\ \A k1, k2 \in Keys(class) :
                    Before(class, k1, k2) => Before(d, k1, k2)
              /\ \A k1 \in Keys(class) : \A k2 \in Keys(d) \ Keys(class) :
                    Before(d, k1, k2)
              /\ \A k1, k2 \in Keys(op.kwargs) \ Keys(class) :
                    Before(op.kwargs, k1, k2) => Before(d, k1, k2)

\* an LSF command line where the per-call R has beaten the construction
\* keyword R (which had beaten the class default) and the per-call jobname
\* has beaten both the per-call J and the construction keyword J
C5_Witness ==
    /\ op.name = "batch"
    /\ Self.cls = "LSF"
    /\ ClassDefault("LSF", "R") \notin {None, "iR"}
    /\ Get(Self.default_opts, "R", None) = "iR"
    /\ Get(op.opts, "R", None) = "cR"
    /\ Get(options, "R", None) = "cR"
    /\ Get(Self.default_opts, "J", None) = "ij"
    /\ Get(op.opts, "J", None) = "cj"
    /\ op.jobname = "j1"
    /\ Get(options, "J", None) = "j1"

\* C6: the W of an LSF command line is the W of the per-call options, else
\* of the instance defaults; when neither gives one it is the RUNLIMITS
\* entry of the queue q in effect ("0:04" for "express"), "4:00" when q is
\* unset or not in the table.
C6_Wallclock ==
    (op.name = "batch" /\ Self.cls = "LSF") =>
        LET q == Merged("q")
            W == Get(options, "W", None)
        IN  IF Merged("W") # None THEN W = Merged("W")
            ELSE /\ q \in DOMAIN RUNLIMITS_table \ {None} =>
                        W = RUNLIMITS_table[q]
                 /\ q \notin DOMAIN RUNLIMITS_table \ {None} => W = "4:00"
                 /\ q = "express" => W = "0:04"

\* an LSF command line for queue express with no W given has W 0:04
C6_Witness ==
    /\ op.name = "batch"
    /\ Self.cls = "LSF"
    /\ Merged("W") = None
    /\ Merged("q") = "express"
    /\ Get(options, "W", None) = "0:04"

\* C7: the R of an LSF command line is the merged R followed, when n is
\* given in any layer, by the MPIOPTS entry of the queue q in effect
\* (ptile=16 for bulletmpi), the default entry (ptile=4) when q is unset or
\* not in the table; without n nothing is appended.
C7_MpiPlacement ==
    (op.name = "batch" /\ Self.cls = "LSF") =>
        LET q == Merged("q")
            R == Get(options, "R", None)
        IN  IF Merged("n") = None THEN R = Merged("R")
            ELSE /\ q \in DOMAIN MPIOPTS_table \ {None} =>
                        R = Merged("R") \o MPIOPTS_table[q]
                 /\ q \notin DOMAIN MPIOPTS_table \ {None} =>
                        R = Merged("R") \o " -R \"span[ptile=4]\""
                 /\ q = "bulletmpi" =>
                        R = Merged("R") \o " -R \"span[ptile=16]\""

\* an LSF command line with n given for queue bulletmpi: the class default
\* R with the ptile=16 placement appended
C7_Witness ==
    /\ op.name = "batch"
    /\ Self.cls = "LSF"
    /\ Get(op.opts, "n", None) = "2"
    /\ Merged("q") = "bulletmpi"
    /\ Get(options, "R", None) =
           "\"scratch > 1 && rhel60\" -R \"span[ptile=16]\""

-----------------------------------------------------------------------------
(* Properties of submit() and throttle().                                  *)

Throttling == pc \in {"poll", "sleep"}

\* C1: while submit() runs on a backend with a ceiling, cmd is the command
\* line of its arguments and the ceiling is the object's; nothing is handed
\* to the process runner while throttle() polls or sleeps; the runner gets
\* cmd, once, only after a poll below the ceiling, and never while the last
\* poll was at or above it; submit() then returns cmd.
C1_SubmitOrder ==
    /\ (frame.name = "submit" /\ insts[frame.slot].max_jobs # NoJobs) =>
          /\ cmd = batch(insts[frame.slot], op.command, op.jobname,
                         op.logfile, op.opts)
          /\ max_jobs = insts[frame.slot].max_jobs
          /\ pc \in {"poll", "sleep", "call", "return"}
          /\ pc \in {"poll", "sleep", "call"} => called = <<>>
          /\ pc = "return" => called = <<cmd>>
          /\ pc \in {"call", "return"} =>
                (njobs # NoJobs /\ njobs[1] < max_jobs[1])
          /\ (njobs # NoJobs /\ njobs[1] >= max_jobs[1]) =>
                (Throttling /\ called = <<>>)
    /\ (op.name = "submit" /\ pc = "idle" /\ insts[op.slot].max_jobs # NoJobs)
          => /\ ret = Str(cmd)
             /\ called = <<cmd>>
             /\ njobs # NoJobs /\ njobs[1] < max_jobs[1]

\* submit() on an LSF backend with max_jobs = 2 has waited, then polled a
\* count below 2, run the command once and returned it
C1_Witness ==
    /\ op.name = "submit"
    /\ pc = "idle"
    /\ insts[op.slot].cls = "LSF"
    /\ insts[op.slot].max_jobs = <<2>>
    /\ waited
    /\ njobs # NoJobs /\ njobs[1] < 2
    /\ called = <<cmd>>
    /\ ret = Str(cmd)

\* what throttle() must hold to, in every state of a throttle() or submit()
\* call and after it
C2_Safety ==
    op.name \in {"throttle", "submit"} =>
        LET param == IF op.name = "throttle" THEN op.max_jobs ELSE NoJobs
            eff   == IF param # NoJobs THEN param
                     ELSE insts[op.slot].max_jobs
        IN  /\ max_jobs = eff
            /\ eff = NoJobs => (~Throttling /\ njobs = NoJobs /\ ~waited)
            /\ (eff # NoJobs /\ ~Throttling) =>
                  (njobs # NoJobs /\ njobs[1] < eff[1])
            /\ (Throttling /\ njobs # NoJobs) => njobs[1] >= eff[1]
            /\ pc = "sleep" => njobs # NoJobs

\* the listing, polled now, would show a count below the ceiling
QueueBelow == below(njobs_of(insts[frame.slot], queue_out), max_jobs)

\* C2 as claimed: the safety part, and whenever the queue count drops below
\* the ceiling while throttle() is in its loop, throttle() returns.
C2_DropThenReturn ==
    [] C2_Safety /\ ((Throttling /\ QueueBelow) ~> ~Throttling)

\* C2, amended: with no ceiling (argument and object both None) throttle()
\* returns at once and polls nothing; else the ceiling is the argument if
\* given, else the object's, throttle() has returned only after a poll
\* below the ceiling and is still in its loop only if every poll so far was
\* at or above it; and it does not stay in the loop for ever once the queue
\* count stays below the ceiling (a dip that ends before the next poll is
\* not seen).
C2_Throttle == [] C2_Safety /\ []<>(~Throttling \/ ~QueueBelow)

\* throttle(max_jobs=1) on an object with max_jobs = 2 has waited and then
\* returned after polling 0
C2_Witness ==
    /\ op.name = "throttle"
    /\ op.max_jobs = <<1>>
    /\ insts[op.slot].max_jobs = <<2>>
    /\ waited
    /\ pc = "idle"
    /\ njobs = <<0>>

LocalSubmit == frame.name = "submit" /\ insts[frame.slot].cls = "Local"

\* the ceilings a job count of 0 is below
Positive(mj) == mj = NoJobs \/ mj[1] >= 1

\* C3 as claimed: for every ceiling, submit() on a Local backend polls 0 and
\* never waits in the throttle loop.
C3_LocalNeverWaits ==
    LocalSubmit => (pc # "sleep" /\ (njobs # NoJobs => njobs = <<0>>))

C3_Safety ==
    LocalSubmit =>
        /\ njobs # NoJobs => njobs = <<0>>
        /\ Positive(max_jobs) => (pc # "sleep" /\ ~waited)
        /\ ~Positive(max_jobs) => (Throttling /\ called = <<>>)

\* C3, amended: Local.njobs is 0 for every ceiling and every listing; with
\* the ceiling unset or at least 1 submit() on a Local backend never waits,
\* runs the command and returns it; with the ceiling 0 it stays in the
\* throttle loop and the command is not run.
C3_LocalThrottle ==
    /\ [] C3_Safety
    /\ (LocalSubmit /\ Positive(max_jobs)) ~>
          (op.name = "submit" /\ pc = "idle" /\ ret = Str(cmd)
             /\ called = <<cmd>>)

\* submit() on a Local backend with max_jobs = 1 has polled 0 and returned
\* while the listing shows MaxQueue jobs
C3_Witness ==
    /\ op.name = "submit"
    /\ pc = "idle"
    /\ insts[op.slot].cls = "Local"
    /\ max_jobs = <<1>>
    /\ njobs = <<0>>
    /\ ~waited
    /\ queue_out = Listing(MaxQueue)
    /\ ret = Str(cmd)
    /\ called = <<cmd>>

-----------------------------------------------------------------------------
(* Properties of njobs().                                                  *)

NonWs(t) == {i \in DOMAIN t : t[i] \notin Whitespace}

\* the line breaks that have text before them and text after them
InnerNewlines(t) ==
    {i \in DOMAIN t :
        /\ t[i] = "\n"
        /\ \E j \in NonWs(t) : j < i
        /\ \E k \in NonWs(t) : k > i}

\* the first non-blank character of each line that has one
LineStarts(t) ==
    {i \in NonWs(t) :
        \A j \in NonWs(t) : j < i => \E n \in (j + 1)..(i - 1) : t[n] = "\n"}

\* the number of lines that are not blank
NonBlankLines(t) == Cardinality(LineStarts(t))

\* no blank line between two lines of text
NoBlankInside(t) == Cardinality(InnerNewlines(t)) < 2 \/
    \A i, k \in InnerNewlines(t) :
        i < k => \E n \in (i + 1)..(k - 1) : t[n] \notin Whitespace

Max0(n) == IF n > 0 THEN n ELSE 0

\* C9 as claimed: njobs() is the number of non-empty lines of the listing
\* minus the header line, and not negative.
C9_NonEmptyLinesMinusOne ==
    op.name = "njobs" => njobs[1] = Max0(NonBlankLines(op.out) - 1)

\* C9, amended: njobs() is the number of line breaks of the listing that
\* have text both before and after them (0 for an empty or blank listing):
\* blank lines inside the listing count as jobs; it is never negative, and
\* for a listing of N lines of text with no blank line between them it is
\* N - 1.
C9_CountJobs ==
    op.name = "njobs" =>
        /\ jobs = op.out
        /\ njobs[1] = Cardinality(InnerNewlines(op.out))
        /\ njobs[1] >= 0
        /\ op.out = <<>> => njobs[1] = 0
        /\ NoBlankInside(op.out) =>
              njobs[1] = Max0(NonBlankLines(op.out) - 1)

\* a header, a blank line and a job line count as 2
C9_Witness ==
    /\ op.name = "njobs"
    /\ op.out = <<"x", "\n", "\n", "x">>
    /\ NonBlankLines(op.out) = 2
    /\ njobs = <<2>>

-----------------------------------------------------------------------------
(* Properties of the state a call leaves behind.                           *)

\* the keywords Batch.__init__ gets from factory(queue, **kwargs)
KeywordsOf(queue, kwargs) ==
    IF "q" \notin Keys(kwargs) /\ Folded(queue) \in Range(AllQueues)
    THEN Append(kwargs, <<"q", Folded(queue)>>)
    ELSE kwargs

\* the object of the last call as it was right after its construction
Fresh == [Self EXCEPT !.default_opts = built[op.slot]]

\* C10: whatever was constructed and called before, the class tables
\* _defaults and _mapping, RUNLIMITS and MPIOPTS are as at import, every
\* object's default_opts are as its construction left them, and those are
\* the class defaults updated with its own keywords only; so batch() and
\* submit() build the command line they build on the fresh object.
C10_NoSideEffects ==
    /\ _defaults = defaults_table
    /\ _mapping = mapping_table
    /\ RUNLIMITS = RUNLIMITS_table
    /\ MPIOPTS = MPIOPTS_table
    /\ \A s \in Slots : insts[s] # NoInst => insts[s].default_opts = built[s]
    /\ (op.name = "factory" /\ exc = None) =>
          /\ ret = Obj(insts[op.slot])
          /\ built[op.slot] =
                Update(defaults_table[DefaultsOwner(ret[2].cls)],
                       KeywordsOf(op.queue, op.kwargs))
    /\ op.name = "batch" =>
          ret = Str(batch(Fresh, op.command, op.jobname, op.logfile,
                          op.opts))
    /\ op.name = "submit" =>
          cmd = batch(Fresh, op.command, op.jobname, op.logfile, op.opts)

\* two LSF backends with different defaults; batch() on one of them has just
\* appended an MPI placement to R and defaulted W in its command line, and
\* neither is in the object's defaults
C10_Witness ==
    /\ insts["a"].cls = "LSF"
    /\ insts["b"].cls = "LSF"
    /\ built["a"] # built["b"]
    /\ op.name = "batch"
    /\ "n" \in Keys(options)
    /\ "W" \in Keys(options)
    /\ "W" \notin Keys(Self.default_opts)
    /\ Get(options, "R", None) # Get(Self.default_opts, "R", None)
    /\ Self.default_opts = built[op.slot]

====
